---- MODULE Spec2Model ----
(***************************************************************************)
(* Plannivo load-test data tooling: the populator                          *)
(* (scripts/populate_2000_users.py) and the manifest-driven rollback       *)
(* (scripts/rollback_population.py), modelled as one sequential process    *)
(* per workflow talking to a REST API whose answers are nondeterministic.  *)
(*                                                                         *)
(* IDs are naturals; 0 stands for a missing / falsy id (None, "").         *)
(* The random amounts (top-up amount, prices, revenue totals) and the      *)
(* generated profile fields are not modelled: no decision depends on them. *)
(***************************************************************************)
EXTENDS Naturals, Sequences, FiniteSets, TLC

VARIABLES
    workflow,          \* "populate" | "rollback": which script was started
    dry_run,           \* --dry-run
    pc,                \* position inside run()
    result,            \* return value of run(): "none" until it returns
    sent,              \* the endpoints a request was put on the network for
    file,              \* the manifest file on disk
    backups,           \* the backup copies of the manifest on disk
    apiNext,           \* API side: kind -> last id disclosed in a create response
    api,               \* API side: the resources created and not yet deleted
    config,            \* populator: fetch_required_ids() result
    batch_num,         \* populator: run() loop variable
    batch_users,       \* populator: the slice handed to process_user_batch
    k,                 \* populator: users of the slice already iterated
    user_id,           \* populator: id of the user being processed
    use_package,       \* populator: flow drawn for the user
    num_bookings,      \* populator: number of bookings drawn for the user
    j,                 \* populator: bookings loop counter
    last_calls,        \* populator: the endpoints the latest step of the user loop called
    create_ok,         \* populator: the success flags create_user just got back
    created_users,     \* populator: self.created_users
    created_bookings,  \* populator: self.created_bookings
    created_rentals,   \* populator: self.created_rentals
    created_packages,  \* populator: self.created_packages
    stats,             \* self.stats of the running workflow
    force,             \* rollback: --force
    pattern_fallback,  \* rollback: --pattern-fallback
    run_no,            \* 1 for the first run against the manifest path, then 2
    connected,         \* what verify_connection returned: "unknown", "yes", "no"
    manifest,          \* rollback: what load_manifest() returned
    answer,            \* rollback: what the operator typed at the prompt
    fetched,           \* rollback: the user list GET /users returned
    todo,              \* rollback: ids still to delete in the current category
    del_log            \* rollback: the DELETE calls made, in order

flagVars == <<workflow, dry_run, force, pattern_fallback, run_no>>
envVars  == <<flagVars, connected>>
ioVars   == <<sent, file, backups, apiNext, api>>
popVars  == <<last_calls, create_ok, config, batch_num, batch_users, k, user_id, use_package,
              num_bookings, j, created_users, created_bookings,
              created_rentals, created_packages>>
rbVars   == <<manifest, answer, fetched, todo, del_log>>
vars     == <<envVars, pc, result, ioVars, popVars, stats, rbVars>>

----------------------------------------------------------------------------
(* Bounds of the model.  The script's own values are TOTAL_USERS = 2000 and *)
(* BATCH_SIZE = 50 (lines 45-46) and 1..5 bookings per user (line 387); the *)
(* model runs the same loops on a smaller population.  MaxEntries bounds    *)
(* the number of entries of a manifest that rollback is started on.         *)
TOTAL_USERS == 3
BATCH_SIZE == 2
MaxBookings == 2
MaxEntries == 4

----------------------------------------------------------------------------
(* Endpoints *)
AuthMe        == "GET /auth/me"
GetRoles      == "GET /roles"
GetInstr      == "GET /users?role=instructor"
GetServices   == "GET /services"
GetPackages   == "GET /services/packages"
PostRegister  == "POST /auth/register"
PostUsers     == "POST /users"
PostDeposit   == "POST /wallet/admin/deposit"
PostPurchase  == "POST /services/packages/purchase"
PostBookings  == "POST /bookings"
PostRentals   == "POST /rentals"
GetUsers      == "GET /users"
DelBookings   == "DELETE /bookings"
DelRentals    == "DELETE /rentals"
DelPackages   == "DELETE /services/customer-packages"
DelUsers      == "DELETE /users"

Endpoints == {AuthMe, GetRoles, GetInstr, GetServices, GetPackages,
              PostRegister, PostUsers, PostDeposit, PostPurchase,
              PostBookings, PostRentals, GetUsers,
              DelBookings, DelRentals, DelPackages, DelUsers}

Kinds == {"user", "package", "booking", "rental"}

----------------------------------------------------------------------------
(* The wire: what the HTTP layer hands back for one request.  status 0 is   *)
(* a transport failure (requests.RequestException); a body without text is  *)
(* EmptyBody, which response.json()-less code turns into {}.                *)
EmptyBody == [list |-> FALSE, id |-> 0, alt |-> 0, items |-> <<>>]
DictBody(id, alt) == [list |-> FALSE, id |-> id, alt |-> alt, items |-> <<>>]
ListBody(items) == [list |-> TRUE, id |-> 0, alt |-> 0, items |-> items]
NoWire == [status |-> 0, body |-> EmptyBody]
FailWires == {NoWire, [status |-> 500, body |-> EmptyBody]}

(* random.randint(1000, 9999) of the dry-run placeholder id: the two ends. *)
DryRunIds == {1000, 9999}

(* The answers the API can give to a create request.  A 200/201 body may   *)
(* carry the new resource's id as 'id', as 'customerPackageId' (alt), or   *)
(* not at all.  Ids are opaque, so the ids the API discloses are numbered  *)
(* 1, 2, ... per kind in the order it discloses them: n is the next one.   *)
CreateWires(n, withAlt) ==
    FailWires
    \cup {[status |-> 204, body |-> EmptyBody]}
    \cup {[status |-> 200, body |-> DictBody(0, 0)],
          [status |-> 200, body |-> DictBody(n, 0)],
          [status |-> 201, body |-> DictBody(n, 0)]}
    \cup (IF withAlt THEN {[status |-> 201, body |-> DictBody(0, n)]} ELSE {})

PlainWires == FailWires \cup {[status |-> 200, body |-> DictBody(0, 0)]}

Disclosed(w) == w.status \in {200, 201} /\ (w.body.id # 0 \/ w.body.alt # 0)
ApiAfter(n, w) == IF Disclosed(w) THEN n + 1 ELSE n

(* The API side.  The API accepts or rejects each request atomically: a   *)
(* create answered 200/201 has made the resource, whether or not the body *)
(* names its id, and an accepted DELETE has removed it.  live holds the   *)
(* resources whose id was disclosed; hidden says that one exists whose id *)
(* was not.  The resources are followed only where tracked is set.        *)
Untracked == [tracked |-> FALSE, live |-> {}, hidden |-> FALSE]
EmptyApi == [tracked |-> TRUE, live |-> {}, hidden |-> FALSE]
ApiCreate(a, kind, w) ==
    IF ~a.tracked \/ w.status \notin {200, 201} THEN a
    ELSE IF w.body.id # 0 THEN [a EXCEPT !.live = @ \cup {<<kind, w.body.id>>}]
    ELSE IF w.body.alt # 0 THEN [a EXCEPT !.live = @ \cup {<<kind, w.body.alt>>}]
    ELSE [a EXCEPT !.hidden = TRUE]
ApiDelete(a, kind, id, w) ==
    IF ~a.tracked \/ w.status \notin {200, 201, 204} THEN a
    ELSE [a EXCEPT !.live = @ \ {<<kind, id>>}]

(* What _api_request returns: (success, payload). *)
Failure == [ok |-> FALSE, list |-> FALSE, id |-> 0, alt |-> 0, items |-> <<>>]
Success(b) == [ok |-> TRUE, list |-> b.list, id |-> b.id, alt |-> b.alt,
               items |-> b.items]

(* PlannivioPopulator._api_request *)
ApiRequest(dry, w, d) ==
    IF dry THEN Success(DictBody(d, 0))
    ELSE IF w.status = 0 THEN Failure
    ELSE IF w.status \in {200, 201} THEN Success(w.body)
    ELSE Failure

TransmitAlways(dry, s, eps) == s \cup eps

(* Both _api_request methods return before session.request when dry_run. *)
Transmit(dry, s, eps) == IF dry THEN s ELSE s \cup eps

(* The wires an action draws from: nothing comes back in a dry run, and   *)
(* no placeholder id is drawn in a live one.                              *)
Draw(W) == IF dry_run THEN {NoWire} ELSE W
DryDraw == IF dry_run THEN DryRunIds ELSE {0}

----------------------------------------------------------------------------
(* The manifest file *)
ZeroPopStats == [users_created |-> 0, users_failed |-> 0, topups_created |-> 0,
                 packages_purchased |-> 0, bookings_created |-> 0,
                 rentals_created |-> 0]
NoContent == [haskeys |-> FALSE, users |-> <<>>, bookings |-> <<>>,
              rentals |-> <<>>, packages |-> <<>>]
NoFile == [state |-> "missing", content |-> NoContent]
JsonFile(c) == [state |-> "json", content |-> c]

----------------------------------------------------------------------------
(* PlannivioPopulator.fetch_required_ids *)
InstructorCap == 10
ListCap == 5

Min(a, b) == IF a < b THEN a ELSE b
Take(s, n) == SubSeq(s, 1, Min(Len(s), n))

Role(name, id) == [name |-> name, id |-> id]
RoleLists == {<<>>, <<Role("admin", 1)>>, <<Role("student", 2)>>,
              <<Role("student", 2), Role("outsider", 3)>>}
Lesson == [serviceType |-> "lesson", category |-> "lesson"]
Rental == [serviceType |-> "rental", category |-> "rental"]
CatRental == [serviceType |-> "lesson", category |-> "rental"]
ServiceLists == {<<>>, <<Lesson>>, <<Rental>>, <<CatRental>>}
IdLists == {<<>>, <<[id |-> 1]>>}

ListWires(lists) ==
    FailWires
    \cup {[status |-> 200, body |-> DictBody(0, 0)]}
    \cup {[status |-> 200, body |-> ListBody(l)] : l \in lists}

(* for role in roles: the last role of that name wins; 0 is None *)
RoleIdOf(items, name) ==
    LET hits == {n \in DOMAIN items : items[n].name = name}
    IN IF hits = {} THEN 0
       ELSE items[CHOOSE n \in hits : \A m \in hits : m <= n].id

IsLessonService(s) == s.serviceType # "rental"
IsRentalService(s) == s.serviceType = "rental" \/ s.category = "rental"

EmptyConfig == [student_role_id |-> 0, outsider_role_id |-> 0,
                instructors |-> <<>>, services |-> <<>>, packages |-> <<>>,
                rental_equipment |-> <<>>]

fetch_required_ids(roles, users, services, packages) ==
    [student_role_id |->
        IF roles.ok /\ roles.list THEN RoleIdOf(roles.items, "student") ELSE 0,
     outsider_role_id |->
        IF roles.ok /\ roles.list THEN RoleIdOf(roles.items, "outsider") ELSE 0,
     instructors |->
        IF users.ok /\ users.list THEN Take(users.items, InstructorCap) ELSE <<>>,
     services |->
        IF services.ok /\ services.list
        THEN Take(SelectSeq(services.items, IsLessonService), ListCap) ELSE <<>>,
     rental_equipment |->
        IF services.ok /\ services.list
        THEN Take(SelectSeq(services.items, IsRentalService), ListCap) ELSE <<>>,
     packages |->
        IF packages.ok /\ packages.list THEN Take(packages.items, ListCap) ELSE <<>>]

(* run(), lines 415-417 *)
NoRoleIds(c) == c.student_role_id = 0 /\ c.outsider_role_id = 0

----------------------------------------------------------------------------
(* PlannivioPopulator: the per-resource steps *)

(* create_user, lines 214-245: the id create_user returns, 0 for None.    *)
(* r1 answers POST /auth/register, r2 answers POST /users (when issued).  *)
AdminFallback(r1) == ~r1.ok
create_user(r1, r2) ==
    IF r1.ok THEN r1.id
    ELSE IF r2.ok THEN r2.id
    ELSE 0

RecordUserAlways(users, id, idx) == Append(users, [id |-> id, idx |-> idx])

(* lines 217-221 and 238-242: the manifest entry of a created user *)
RecordUser(users, id, idx) ==
    IF id # 0 THEN Append(users, [id |-> id, idx |-> idx]) ELSE users

CountUserCreatedOnly(st, user) ==
    IF user = 0 THEN st ELSE [st EXCEPT !.users_created = @ + 1]

(* process_user_batch, lines 367-371 *)
CountUser(st, user) ==
    IF user = 0 THEN [st EXCEPT !.users_failed = @ + 1]
    ELSE [st EXCEPT !.users_created = @ + 1]

(* purchase_package, line 278 *)
PackageIdOf(r) == IF r.id # 0 THEN r.id ELSE r.alt

RecordIdOnSuccess(ids, ok, id) == IF ok THEN Append(ids, id) ELSE ids

(* lines 277-283, 315-322, 350-356: append the id of a successful create *)
RecordId(ids, ok, id) == IF ok /\ id # 0 THEN Append(ids, id) ELSE ids
CountId(n, ok, id) == IF ok /\ id # 0 THEN n + 1 ELSE n

(* run(), lines 421-432 *)
AllUsers == [n \in 1..TOTAL_USERS |-> n - 1]
NumBatches == (TOTAL_USERS + BATCH_SIZE - 1) \div BATCH_SIZE
BatchUsers(b) ==
    SubSeq(AllUsers, b * BATCH_SIZE + 1, Min(b * BATCH_SIZE + BATCH_SIZE, TOTAL_USERS))

(* save_rollback_manifest, lines 454-465 *)
Manifest ==
    [haskeys |-> TRUE, users |-> created_users, bookings |-> created_bookings,
     rentals |-> created_rentals, packages |-> created_packages]

----------------------------------------------------------------------------
(* PlannivioPopulator.run and what it calls, one action per step *)

Populating(at) == workflow = "populate" /\ pc = at

(* verify_connection: True iff GET /auth/me succeeded *)
verify_connection(r) == IF r.ok THEN "yes" ELSE "no"

(* run(): 'if not self.verify_connection(): return False' *)
AfterVerifyIgnoring(conn, next) == next
AfterVerify(conn, next) == IF conn = "yes" THEN next ELSE "done"

(* verify_connection, and run() lines 409-410 *)
PVerifyConnection ==
    /\ Populating("start")
    /\ \E w \in Draw(PlainWires), d \in DryDraw :
         LET r == ApiRequest(dry_run, w, d)
         IN /\ sent' = Transmit(dry_run, sent, {AuthMe})
            /\ connected' = verify_connection(r)
            /\ pc' = AfterVerify(connected', "fetch")
            /\ result' = IF r.ok THEN result ELSE "failure"
    /\ UNCHANGED <<flagVars, file, backups, apiNext, api, popVars, stats, rbVars>>

(* fetch_required_ids, and run() lines 413-417 *)
PFetchRequiredIds ==
    /\ Populating("fetch")
    /\ \E wr \in Draw(ListWires(RoleLists)), wu \in Draw(ListWires(IdLists)),
          ws \in Draw(ListWires(ServiceLists)), wp \in Draw(ListWires(IdLists)),
          d \in DryDraw :
         LET c == fetch_required_ids(ApiRequest(dry_run, wr, d),
                                     ApiRequest(dry_run, wu, d),
                                     ApiRequest(dry_run, ws, d),
                                     ApiRequest(dry_run, wp, d))
         IN /\ config' = c
            /\ pc' = IF NoRoleIds(c) THEN "done" ELSE "batch"
            /\ result' = IF NoRoleIds(c) THEN "failure" ELSE result
    /\ sent' = Transmit(dry_run, sent, {GetRoles, GetInstr, GetServices, GetPackages})
    /\ UNCHANGED <<envVars, file, backups, apiNext, api, last_calls, create_ok, batch_num,
                   batch_users, k, user_id, use_package, num_bookings, j, created_users,
                   created_bookings, created_rentals, created_packages, stats, rbVars>>

(* run() lines 429-434: the next slice, or the end of the loop *)
PNextBatch ==
    /\ Populating("batch")
    /\ IF batch_num < NumBatches
       THEN /\ batch_users' = BatchUsers(batch_num)
            /\ k' = 0
            /\ pc' = IF Len(BatchUsers(batch_num)) > 0 THEN "user" ELSE "batch_end"
       ELSE /\ pc' = "save"
            /\ UNCHANGED <<batch_users, k>>
    /\ UNCHANGED <<envVars, result, ioVars, last_calls, create_ok, config, batch_num, user_id,
                   use_package,
                   num_bookings, j, created_users, created_bookings, created_rentals,
                   created_packages, stats, rbVars>>

(* what follows an iteration of the for loop of process_user_batch; the   *)
(* locals of the finished iteration are dead and are cleared              *)
AfterUser == IF k + 1 < Len(batch_users) THEN "user" ELSE "batch_end"
(* process_user_batch lines 368-372: 'if not user: ...; continue' *)
AfterCreateAlwaysTopup(user) == "topup"
AfterCreate(user) == IF user = 0 THEN AfterUser ELSE "topup"

ClearLocals ==
    /\ user_id' = 0
    /\ use_package' = FALSE
    /\ num_bookings' = 0
    /\ j' = 0

(* process_user_batch lines 364-372 with create_user *)
PCreateUser ==
    /\ Populating("user")
    /\ \E w1 \in Draw(CreateWires(apiNext.user + 1, FALSE)), d1, d2 \in DryDraw :
         LET r1 == ApiRequest(dry_run, w1, d1)
             n1 == ApiAfter(apiNext.user, w1)
         IN \E w2 \in IF AdminFallback(r1) THEN Draw(CreateWires(n1 + 1, FALSE))
                      ELSE {NoWire} :
              LET r2 == IF AdminFallback(r1) THEN ApiRequest(dry_run, w2, d2)
                        ELSE Failure
                  user == create_user(r1, r2)
              IN /\ created_users' = RecordUser(created_users, user, batch_users[k + 1])
                 /\ stats' = CountUser(stats, user)
                 /\ user_id' = user
                 /\ last_calls' = IF AdminFallback(r1) THEN <<PostRegister, PostUsers>>
                                  ELSE <<PostRegister>>
                 /\ create_ok' = IF AdminFallback(r1) THEN <<r1.ok, r2.ok>>
                                 ELSE <<r1.ok>>
                 /\ UNCHANGED <<use_package, num_bookings, j>>
                 /\ apiNext' = [apiNext EXCEPT !.user = ApiAfter(n1, w2)]
                 /\ api' = ApiCreate(ApiCreate(api, "user", w1), "user", w2)
                 /\ sent' = Transmit(dry_run, sent,
                                     IF AdminFallback(r1) THEN {PostRegister, PostUsers}
                                     ELSE {PostRegister})
                 /\ k' = IF user = 0 THEN k + 1 ELSE k
                 /\ pc' = AfterCreate(user)
    /\ UNCHANGED <<envVars, result, file, backups, config, batch_num, batch_users,
                   created_bookings, created_rentals, created_packages, rbVars>>

(* process_user_batch lines 375-376 with topup_wallet *)
PTopupWallet ==
    /\ Populating("topup")
    /\ \E w \in Draw(PlainWires), d \in DryDraw :
         LET r == ApiRequest(dry_run, w, d)
         IN /\ stats' = IF r.ok THEN [stats EXCEPT !.topups_created = @ + 1] ELSE stats
            /\ last_calls' = <<PostDeposit>>
            /\ create_ok' = <<>>
    /\ sent' = Transmit(dry_run, sent, {PostDeposit})
    /\ pc' = "package"
    /\ UNCHANGED <<envVars, result, file, backups, apiNext, api, config, batch_num,
                   batch_users, k, user_id, use_package, num_bookings, j,
                   created_users, created_bookings, created_rentals,
                   created_packages, rbVars>>

(* process_user_batch lines 379-387 with purchase_package *)
PPurchasePackage ==
    /\ Populating("package")
    /\ \E flow \in BOOLEAN, n \in 1..MaxBookings :
         /\ use_package' = flow
         /\ num_bookings' = n
         /\ j' = 0
         /\ IF flow /\ config.packages # <<>>
            THEN \E w \in Draw(CreateWires(apiNext.package + 1, TRUE)), d \in DryDraw :
                   LET r == ApiRequest(dry_run, w, d)
                   IN /\ created_packages' =
                            RecordId(created_packages, r.ok, PackageIdOf(r))
                      /\ stats' = [stats EXCEPT !.packages_purchased =
                                       CountId(@, r.ok, PackageIdOf(r))]
                      /\ apiNext' = [apiNext EXCEPT !.package = ApiAfter(@, w)]
                      /\ api' = ApiCreate(api, "package", w)
                      /\ sent' = Transmit(dry_run, sent, {PostPurchase})
                      /\ last_calls' = <<PostPurchase>>
            ELSE /\ last_calls' = <<>>
                 /\ UNCHANGED <<created_packages, stats, apiNext, api, sent>>
    /\ pc' = "booking"
    /\ UNCHANGED <<envVars, result, file, backups, create_ok, config, batch_num,
                   batch_users, k, user_id, created_users, created_bookings,
                   created_rentals, rbVars>>

(* process_user_batch lines 388-389 with create_booking: one iteration *)
PCreateBooking ==
    /\ Populating("booking")
    /\ j < num_bookings
    /\ IF config.instructors = <<>> \/ config.services = <<>>
       THEN /\ last_calls' = <<>>
            /\ UNCHANGED <<created_bookings, stats, apiNext, api, sent>>
       ELSE \E w \in Draw(CreateWires(apiNext.booking + 1, FALSE)), d \in DryDraw :
              LET r == ApiRequest(dry_run, w, d)
              IN /\ created_bookings' = RecordId(created_bookings, r.ok, r.id)
                 /\ stats' = [stats EXCEPT !.bookings_created = CountId(@, r.ok, r.id)]
                 /\ apiNext' = [apiNext EXCEPT !.booking = ApiAfter(@, w)]
                 /\ api' = ApiCreate(api, "booking", w)
                 /\ sent' = Transmit(dry_run, sent, {PostBookings})
                 /\ last_calls' = <<PostBookings>>
    /\ j' = j + 1
    /\ pc' = IF j + 1 < num_bookings THEN "booking" ELSE "rental"
    /\ UNCHANGED <<envVars, result, file, backups, create_ok, config, batch_num,
                   batch_users, k, user_id, use_package, num_bookings, created_users,
                   created_rentals, created_packages, rbVars>>

(* process_user_batch lines 392-395 with create_rental *)
PCreateRental ==
    /\ Populating("rental")
    /\ \E wanted \in BOOLEAN :
         IF wanted /\ config.rental_equipment # <<>>
         THEN \E w \in Draw(CreateWires(apiNext.rental + 1, FALSE)), d \in DryDraw :
                LET r == ApiRequest(dry_run, w, d)
                IN /\ created_rentals' = RecordId(created_rentals, r.ok, r.id)
                   /\ stats' = [stats EXCEPT !.rentals_created = CountId(@, r.ok, r.id)]
                   /\ apiNext' = [apiNext EXCEPT !.rental = ApiAfter(@, w)]
                   /\ api' = ApiCreate(api, "rental", w)
                   /\ sent' = Transmit(dry_run, sent, {PostRentals})
                   /\ last_calls' = <<PostRentals>>
         ELSE /\ last_calls' = <<>>
              /\ UNCHANGED <<created_rentals, stats, apiNext, api, sent>>
    /\ k' = k + 1
    /\ pc' = AfterUser
    /\ ClearLocals
    /\ UNCHANGED <<envVars, result, file, backups, create_ok, config, batch_num, batch_users,
                   created_users, created_bookings, created_packages, rbVars>>

(* run() lines 434-442: process_user_batch returned *)
PBatchEnd ==
    /\ Populating("batch_end")
    /\ batch_num' = batch_num + 1
    /\ last_calls' = <<>>
    /\ create_ok' = <<>>
    /\ pc' = "batch"
    /\ UNCHANGED <<envVars, result, ioVars, config, batch_users, k, user_id,
                   use_package, num_bookings, j, created_users, created_bookings,
                   created_rentals, created_packages, stats, rbVars>>

(* run() lines 445-450 with save_rollback_manifest *)
PSaveAndReturn ==
    /\ Populating("save")
    /\ file' = JsonFile(Manifest)
    /\ result' = IF stats.users_failed = 0 THEN "success" ELSE "failure"
    /\ pc' = "done"
    /\ UNCHANGED <<envVars, sent, backups, apiNext, api, popVars, stats, rbVars>>

PopNext ==
    \/ PVerifyConnection
    \/ PFetchRequiredIds
    \/ PNextBatch
    \/ PCreateUser
    \/ PTopupWallet
    \/ PPurchasePackage
    \/ PCreateBooking
    \/ PCreateRental
    \/ PBatchEnd
    \/ PSaveAndReturn

----------------------------------------------------------------------------
(* PlannivioRollback *)

ZeroRbStats == [users_deleted |-> 0, users_failed |-> 0, bookings_deleted |-> 0,
                rentals_deleted |-> 0, packages_deleted |-> 0]

(* PlannivioRollback._api_request *)
RbApiRequest(dry, w) ==
    IF dry THEN Success(EmptyBody)
    ELSE IF w.status = 0 THEN Failure
    ELSE IF w.status \in {200, 201, 204} THEN Success(w.body)
    ELSE Failure

DeleteWires == {NoWire, [status |-> 404, body |-> EmptyBody],
                [status |-> 200, body |-> DictBody(0, 0)],
                [status |-> 204, body |-> EmptyBody]}

(* An email is the sequence of its parts, so that 'pattern in email' can  *)
(* be told from 'email starts with pattern'; <<>> is None or ''.          *)
TEST_USER_PREFIX == "stress_test_"
TestEmail  == <<TEST_USER_PREFIX, "1700000000_0001", "@stresstest.plannivo.local">>
OtherEmail == <<"alice", "@example.com">>
InnerEmail == <<"qa+", TEST_USER_PREFIX, "@example.com">>
Contains(email, pattern) == \E n \in DOMAIN email : email[n] = pattern

ApiUser(id, email) == [id |-> id, email |-> email]
UserLists == {<<>>,
              <<ApiUser(1, OtherEmail)>>,
              <<ApiUser(1, TestEmail)>>,
              <<ApiUser(1, <<>>), ApiUser(2, InnerEmail)>>,
              <<ApiUser(1, TestEmail), ApiUser(2, OtherEmail)>>}

(* delete_by_email_pattern, lines 226-243: the list handed to delete_users *)
MatchingUserByPrefix(u) == u.email # <<>> /\ u.email[1] = TEST_USER_PREFIX
MatchingUser(u) == Contains(u.email, TEST_USER_PREFIX)
IdsOnly(us) == [n \in DOMAIN us |-> [id |-> us[n].id, idx |-> 0]]
delete_by_email_pattern(r) ==
    IF ~r.ok THEN <<>> ELSE IdsOnly(SelectSeq(r.items, MatchingUser))

(* load_manifest: None and {} are both falsy for run() *)
load_manifest(f) == IF f.state = "json" THEN f.content ELSE NoContent
FalsyNever(m) == FALSE
Falsy(m) == ~m.haskeys

(* confirm.lower() *)
NotAsked == "<not asked>"
Answers == {"y", "Y", "n", ""}
Lower(a) == IF a = "Y" THEN "y" ELSE a
Declined(a) == Lower(a) # "y"

(* run(), line 263 and line 278: is the operator asked? *)
FallbackAsks(f, dry) == ~f
ManifestAsks(f, dry) == ~f /\ ~dry

BacksUpNever(dry) == FALSE
RemovesManifestWhenLive(dry, st) == ~dry

(* run(), line 288 and line 301 *)
BacksUp(dry) == ~dry
RemovesManifest(dry, st) == ~dry /\ st.users_failed = 0

DeletionOrderUsersFirst == <<"users", "bookings", "rentals", "packages">>

(* run(), lines 292-295 *)
DeletionOrder == <<"bookings", "rentals", "packages", "users">>
ListOf(m, cat) ==
    IF cat = "bookings" THEN m.bookings
    ELSE IF cat = "rentals" THEN m.rentals
    ELSE IF cat = "packages" THEN m.packages
    ELSE m.users
Position(cat) == CHOOSE n \in DOMAIN DeletionOrder : DeletionOrder[n] = cat
Following(cat) ==
    IF Position(cat) < Len(DeletionOrder) THEN DeletionOrder[Position(cat) + 1]
    ELSE "finish"

RollingBack(at) == workflow = "rollback" /\ pc = at

(* verify_connection, and run() lines 255-256 *)
RVerifyConnection ==
    /\ RollingBack("start")
    /\ \E w \in Draw(PlainWires) :
         LET r == RbApiRequest(dry_run, w)
         IN /\ connected' = verify_connection(r)
            /\ pc' = AfterVerify(connected', "load")
            /\ result' = IF r.ok THEN result ELSE "failure"
    /\ sent' = Transmit(dry_run, sent, {AuthMe})
    /\ UNCHANGED <<flagVars, file, backups, apiNext, api, popVars, stats, rbVars>>

(* load_manifest, and the branch of run() lines 259-275 *)
RLoadManifest ==
    /\ RollingBack("load")
    /\ manifest' = load_manifest(file)
    /\ pc' = IF Falsy(load_manifest(file))
             THEN (IF pattern_fallback THEN "fb_confirm" ELSE "done")
             ELSE "confirm"
    /\ result' = IF Falsy(load_manifest(file)) /\ ~pattern_fallback
                 THEN "failure" ELSE result
    /\ UNCHANGED <<envVars, ioVars, popVars, stats, answer, fetched, todo, del_log>>

(* run() lines 263-267 *)
RFallbackConfirm ==
    /\ RollingBack("fb_confirm")
    /\ IF FallbackAsks(force, dry_run)
       THEN \E a \in Answers :
              /\ answer' = a
              /\ pc' = IF Declined(a) THEN "done" ELSE "fb_fetch"
              /\ result' = IF Declined(a) THEN "failure" ELSE result
       ELSE /\ pc' = "fb_fetch"
            /\ UNCHANGED <<answer, result>>
    /\ UNCHANGED <<envVars, ioVars, popVars, stats, manifest, fetched, todo, del_log>>

(* delete_by_email_pattern up to its call of delete_users *)
RFetchUsers ==
    /\ RollingBack("fb_fetch")
    /\ \E w \in Draw(ListWires(UserLists)) :
         LET r == RbApiRequest(dry_run, w)
         IN /\ fetched' = IF r.ok THEN r.items ELSE <<>>
            /\ todo' = delete_by_email_pattern(r)
    /\ sent' = Transmit(dry_run, sent, {GetUsers})
    /\ pc' = "users"
    /\ UNCHANGED <<envVars, result, file, backups, apiNext, api, popVars, stats,
                   manifest, answer, del_log>>

(* run() lines 278-285 *)
RConfirm ==
    /\ RollingBack("confirm")
    /\ IF ManifestAsks(force, dry_run)
       THEN \E a \in Answers :
              /\ answer' = a
              /\ pc' = IF Declined(a) THEN "done" ELSE "backup"
              /\ result' = IF Declined(a) THEN "failure" ELSE result
       ELSE /\ pc' = "backup"
            /\ UNCHANGED <<answer, result>>
    /\ UNCHANGED <<envVars, ioVars, popVars, stats, manifest, fetched, todo, del_log>>

(* run() lines 288-289 with backup_manifest, then into the first delete_* *)
RBackup ==
    /\ RollingBack("backup")
    /\ backups' = IF BacksUp(dry_run) THEN backups \cup {file} ELSE backups
    /\ pc' = DeletionOrder[1]
    /\ todo' = ListOf(manifest, DeletionOrder[1])
    /\ UNCHANGED <<envVars, result, sent, file, apiNext, api, popVars, stats,
                   manifest, answer, fetched, del_log>>

(* the kind of resource a manifest list holds *)
KindOf(cat) ==
    IF cat = "bookings" THEN "booking"
    ELSE IF cat = "rentals" THEN "rental"
    ELSE IF cat = "packages" THEN "package"
    ELSE "user"

(* where a delete_* loop goes when its list is used up *)
LeaveCategory(cat) ==
    /\ IF Falsy(manifest)
       THEN pc' = "fb_finish" /\ todo' = <<>>
       ELSE /\ pc' = Following(cat)
            /\ todo' = IF Following(cat) = "finish" THEN <<>>
                       ELSE ListOf(manifest, Following(cat))
    /\ api' = api

(* the for loops of delete_*: the next element, whatever the call returned *)
RemainingUntilFailure(td, ok) == IF ok THEN Tail(td) ELSE <<>>
Remaining(td, ok) == Tail(td)

(* one DELETE of delete_bookings / delete_rentals / delete_packages *)
DeleteId(cat, endpoint, counter) ==
    \E w \in Draw(DeleteWires) :
      LET r == RbApiRequest(dry_run, w)
      IN /\ api' = ApiDelete(api, KindOf(cat), Head(todo), w)
         /\ del_log' = Append(del_log, [cat |-> cat, id |-> Head(todo), ok |-> r.ok])
         /\ stats' = IF r.ok THEN [stats EXCEPT ![counter] = @ + 1] ELSE stats
         /\ sent' = Transmit(dry_run, sent, {endpoint})
         /\ todo' = Remaining(todo, r.ok)
         /\ pc' = pc

(* delete_bookings *)
RDeleteBookings ==
    /\ RollingBack("bookings")
    /\ IF todo = <<>>
       THEN LeaveCategory("bookings") /\ UNCHANGED <<del_log, stats, sent>>
       ELSE DeleteId("bookings", DelBookings, "bookings_deleted")
    /\ UNCHANGED <<envVars, result, file, backups, apiNext, popVars, manifest, answer,
                   fetched>>

(* delete_rentals *)
RDeleteRentals ==
    /\ RollingBack("rentals")
    /\ IF todo = <<>>
       THEN LeaveCategory("rentals") /\ UNCHANGED <<del_log, stats, sent>>
       ELSE DeleteId("rentals", DelRentals, "rentals_deleted")
    /\ UNCHANGED <<envVars, result, file, backups, apiNext, popVars, manifest, answer,
                   fetched>>

(* delete_packages *)
RDeletePackages ==
    /\ RollingBack("packages")
    /\ IF todo = <<>>
       THEN LeaveCategory("packages") /\ UNCHANGED <<del_log, stats, sent>>
       ELSE DeleteId("packages", DelPackages, "packages_deleted")
    /\ UNCHANGED <<envVars, result, file, backups, apiNext, popVars, manifest, answer,
                   fetched>>

(* delete_users: an entry without an id is skipped *)
RDeleteUsers ==
    /\ RollingBack("users")
    /\ IF todo = <<>>
       THEN LeaveCategory("users") /\ UNCHANGED <<del_log, stats, sent>>
       ELSE IF Head(todo).id = 0
       THEN /\ todo' = Tail(todo)
            /\ UNCHANGED <<pc, del_log, stats, sent, api>>
       ELSE \E w \in Draw(DeleteWires) :
              LET r == RbApiRequest(dry_run, w)
              IN /\ api' = ApiDelete(api, "user", Head(todo).id, w)
                 /\ del_log' = Append(del_log, [cat |-> "users", id |-> Head(todo).id,
                                                ok |-> r.ok])
                 /\ stats' = IF r.ok THEN [stats EXCEPT !.users_deleted = @ + 1]
                             ELSE [stats EXCEPT !.users_failed = @ + 1]
                 /\ sent' = Transmit(dry_run, sent, {DelUsers})
                 /\ todo' = Remaining(todo, r.ok)
                 /\ pc' = pc
    /\ UNCHANGED <<envVars, result, file, backups, apiNext, popVars, manifest, answer,
                   fetched>>

(* run() lines 270-271 *)
RFallbackFinish ==
    /\ RollingBack("fb_finish")
    /\ result' = "success"
    /\ pc' = "done"
    /\ UNCHANGED <<envVars, ioVars, popVars, stats, rbVars>>

(* run() lines 298-305 *)
RFinish ==
    /\ RollingBack("finish")
    /\ file' = IF RemovesManifest(dry_run, stats) THEN NoFile ELSE file
    /\ result' = IF stats.users_failed = 0 THEN "success" ELSE "failure"
    /\ pc' = "done"
    /\ UNCHANGED <<envVars, sent, backups, apiNext, api, popVars, stats, rbVars>>

(* main() started again with the same --manifest-file after a run that   *)
(* removed the manifest: a new process, the disk as the first run left it *)
RSecondRun ==
    /\ RollingBack("done")
    /\ run_no = 1
    /\ ~Falsy(manifest)
    /\ file.state = "missing"
    /\ run_no' = 2
    /\ connected' = "unknown"
    /\ dry_run' \in BOOLEAN
    /\ force' \in BOOLEAN
    /\ pattern_fallback' \in BOOLEAN
    /\ pc' = "start"
    /\ result' = "none"
    /\ sent' = {}
    /\ stats' = ZeroRbStats
    /\ manifest' = NoContent
    /\ answer' = NotAsked
    /\ fetched' = <<>>
    /\ todo' = <<>>
    /\ del_log' = <<>>
    /\ UNCHANGED <<workflow, file, backups, apiNext, api, popVars>>

RbNext ==
    \/ RVerifyConnection
    \/ RLoadManifest
    \/ RFallbackConfirm
    \/ RFetchUsers
    \/ RConfirm
    \/ RBackup
    \/ RDeleteBookings
    \/ RDeleteRentals
    \/ RDeletePackages
    \/ RDeleteUsers
    \/ RFallbackFinish
    \/ RFinish

----------------------------------------------------------------------------
(* The manifests a rollback may find: at most MaxEntries entries in all;  *)
(* an id list holds 1..n in either order, a user entry may lack its id.   *)
Ascending(n) == [m \in 1..n |-> m]
Descending(n) == [m \in 1..n |-> n + 1 - m]
IdSeqs == UNION {{Ascending(n), Descending(n)} : n \in 0..MaxEntries}
UserSeqs ==
    UNION {{[m \in 1..n |-> [id |-> IF m \in S THEN m ELSE 0, idx |-> m - 1]] :
              S \in SUBSET (1..n)} : n \in 0..MaxEntries}
Manifests ==
    {c \in [haskeys : {TRUE}, users : UserSeqs, bookings : IdSeqs,
            rentals : IdSeqs, packages : IdSeqs] :
       Len(c.users) + Len(c.bookings) + Len(c.rentals) + Len(c.packages) <= MaxEntries}
InvalidFile == [state |-> "invalid", content |-> NoContent]
RollbackFiles == {NoFile, InvalidFile, JsonFile(NoContent)}
                 \cup {JsonFile(c) : c \in Manifests}

----------------------------------------------------------------------------
ZeroIds == [kd \in Kinds |-> 0]

InitCommon ==
    /\ run_no = 1
    /\ connected = "unknown"
    /\ pc = "start"
    /\ result = "none"
    /\ sent = {}
    /\ backups = {}
    /\ apiNext = ZeroIds
    /\ config = EmptyConfig
    /\ batch_num = 0
    /\ batch_users = <<>>
    /\ k = 0
    /\ user_id = 0
    /\ use_package = FALSE
    /\ num_bookings = 0
    /\ j = 0
    /\ last_calls = <<>>
    /\ create_ok = <<>>
    /\ created_users = <<>>
    /\ created_bookings = <<>>
    /\ created_rentals = <<>>
    /\ created_packages = <<>>
    /\ manifest = NoContent
    /\ answer = NotAsked
    /\ fetched = <<>>
    /\ todo = <<>>
    /\ del_log = <<>>

InitRollback ==
    /\ workflow = "rollback"
    /\ dry_run \in BOOLEAN
    /\ force \in BOOLEAN
    /\ pattern_fallback \in BOOLEAN
    /\ file \in RollbackFiles
    /\ stats = ZeroRbStats
    /\ api = Untracked
    /\ InitCommon

PopulateStart ==
    /\ workflow = "populate"
    /\ dry_run \in BOOLEAN
    /\ force = FALSE
    /\ pattern_fallback = FALSE
    /\ file = NoFile
    /\ stats = ZeroPopStats
    /\ InitCommon

InitPopulate == PopulateStart /\ api = Untracked

Init == InitPopulate \/ InitRollback
Next == PopNext \/ RbNext
Spec == Init /\ [][Next]_vars

(* the populator followed by a live rollback of the manifest it wrote, in *)
(* which the API accepts every DELETE; the API's resources are tracked    *)
InitRoundTrip == PopulateStart /\ api = EmptyApi

(* main() of rollback_population.py started on the populator's manifest *)
StartRollback ==
    /\ Populating("done")
    /\ file.state = "json"
    /\ workflow' = "rollback"
    /\ dry_run' = FALSE
    /\ force' \in BOOLEAN
    /\ pattern_fallback' \in BOOLEAN
    /\ connected' = "unknown"
    /\ pc' = "start"
    /\ result' = "none"
    /\ sent' = {}
    /\ stats' = ZeroRbStats
    /\ last_calls' = <<>>
    /\ create_ok' = <<>>
    /\ config' = EmptyConfig
    /\ batch_num' = 0
    /\ batch_users' = <<>>
    /\ k' = 0
    /\ created_users' = <<>>
    /\ created_bookings' = <<>>
    /\ created_rentals' = <<>>
    /\ created_packages' = <<>>
    /\ UNCHANGED <<run_no, file, backups, apiNext, api, user_id, use_package,
                   num_bookings, j, rbVars>>

DeleteAccepted == \A n \in DOMAIN del_log' : del_log'[n].ok
RbManifestNext ==
    \/ RVerifyConnection
    \/ RLoadManifest
    \/ RConfirm
    \/ RBackup
    \/ RDeleteBookings /\ DeleteAccepted
    \/ RDeleteRentals /\ DeleteAccepted
    \/ RDeletePackages /\ DeleteAccepted
    \/ RDeleteUsers /\ DeleteAccepted
    \/ RFinish
NextRoundTrip == PopNext \/ StartRollback \/ RbManifestNext
SpecRoundTrip == InitRoundTrip /\ [][NextRoundTrip]_vars

(* rollback run twice against the same manifest path *)
NextRerun == RbNext \/ RSecondRun
SpecRerun == InitRollback /\ [][NextRerun]_vars

----------------------------------------------------------------------------
(* Properties *)

ClaimRank(cat) ==
    IF cat = "bookings" THEN 1
    ELSE IF cat = "rentals" THEN 2
    ELSE IF cat = "packages" THEN 3
    ELSE 4
Deletes(cat) == {n \in DOMAIN del_log : del_log[n].cat = cat}
WithId(us) == {n \in DOMAIN us : us[n].id # 0}
Expected(cat) ==
    IF cat = "users" THEN Cardinality(WithId(manifest.users))
    ELSE Len(ListOf(manifest, cat))
ManifestPath == workflow = "rollback" /\ ~Falsy(manifest)
Categories == {"bookings", "rentals", "packages", "users"}

(* C1: on the manifest path the DELETE calls come in the order bookings,   *)
(* rentals, customer packages, users, whatever the manifest holds and      *)
(* whichever deletes fail: no DELETE of an earlier category follows one of *)
(* a later category, and once a category's first DELETE is out every       *)
(* earlier category has had all of its DELETEs.                            *)
C1_DeletionOrder ==
    ManifestPath =>
        /\ \A a, b \in DOMAIN del_log :
             a < b => ClaimRank(del_log[a].cat) <= ClaimRank(del_log[b].cat)
        /\ \A c, e \in Categories :
             (Deletes(c) # {} /\ ClaimRank(e) < ClaimRank(c))
                 => Cardinality(Deletes(e)) = Expected(e)
C1_Witness ==
    /\ ManifestPath /\ pc = "done" /\ ~dry_run
    /\ \A c \in Categories : Deletes(c) # {}
    /\ \E n \in DOMAIN del_log : ~del_log[n].ok /\ del_log[n].cat = "bookings"

Recorded(list, saved) == \A n \in DOMAIN list : \E m \in DOMAIN saved : saved[m] = list[n]

(* C2: at every point of a population run each resource whose create call  *)
(* was treated as successful is already listed in the manifest file on     *)
(* disk.                                                                   *)
C2_RecordedOnDisk ==
    workflow = "populate" =>
        /\ Recorded(created_users, file.content.users)
        /\ Recorded(created_packages, file.content.packages)
        /\ Recorded(created_bookings, file.content.bookings)
        /\ Recorded(created_rentals, file.content.rentals)

CurrentUser == batch_users[k + 1]

(* C3: the manifest's users list holds exactly one entry per user counted  *)
(* as created, carrying the id the API returned for that user, and none    *)
(* for a user counted as failed; its length equals users_created, and the  *)
(* saved file holds that list.                                             *)
C3_UsersListState ==
    workflow = "populate" =>
        /\ Len(created_users) = stats.users_created
        /\ apiNext.user = Len(created_users)
        /\ \A n \in DOMAIN created_users : created_users[n].id = n
        /\ \A m, n \in DOMAIN created_users :
             m # n => created_users[m].idx # created_users[n].idx
        /\ (file.state = "json" => file.content.users = created_users)
C3_UsersListStep ==
    workflow = "populate" =>
        /\ (stats'.users_failed # stats.users_failed) =>
              created_users' = created_users
        /\ (stats'.users_created # stats.users_created) =>
              /\ apiNext'.user = apiNext.user + 1
              /\ created_users' =
                   Append(created_users, [id |-> apiNext'.user, idx |-> CurrentUser])
        /\ (created_users' # created_users) =>
              stats'.users_created = stats.users_created + 1
(* C3, as one property: the state part always holds and every step of a   *)
(* population run that counts a user changes the users list as stated.    *)
C3_UsersList == [](C3_UsersListState) /\ [][C3_UsersListStep]_vars
C3_Witness ==
    /\ Populating("done") /\ file.state = "json"
    /\ stats.users_created >= 1 /\ stats.users_failed >= 1

(* C4: the bookings, rentals and packages lists hold exactly the ids the   *)
(* API returned in a success answer to a create call of that kind, each    *)
(* once and in the order returned; nothing is appended after a failed call *)
(* or a success answer without an id.                                      *)
C4_IdsAreReturnedIds ==
    workflow = "populate" =>
        /\ created_bookings = Ascending(apiNext.booking)
        /\ created_rentals = Ascending(apiNext.rental)
        /\ created_packages = Ascending(apiNext.package)
        /\ stats.bookings_created = Len(created_bookings)
        /\ stats.rentals_created = Len(created_rentals)
        /\ stats.packages_purchased = Len(created_packages)
C4_Witness ==
    /\ Populating("done") /\ stats.users_created = TOTAL_USERS
    /\ config.instructors # <<>> /\ config.services # <<>>
    /\ Len(created_bookings) = 1
    /\ Len(created_packages) >= 1 /\ Len(created_rentals) >= 1

Processed ==
    IF pc \in {"start", "fetch"} THEN 0
    ELSE IF pc \in {"batch", "save", "done"}
    THEN Min(batch_num * BATCH_SIZE, TOTAL_USERS)
    ELSE batch_num * BATCH_SIZE + k
         + (IF pc \in {"topup", "package", "booking", "rental"} THEN 1 ELSE 0)

(* C5: in a population run that passed the precondition checks,            *)
(* users_created + users_failed equals the number of users processed so    *)
(* far, and equals the requested number of users when the run finishes.    *)
C5_EveryUserCounted ==
    workflow = "populate" =>
        /\ stats.users_created + stats.users_failed = Processed
        /\ Processed <= TOTAL_USERS
        /\ (pc \in {"save"} \/ (pc = "done" /\ file.state = "json"))
              => stats.users_created + stats.users_failed = TOTAL_USERS
C5_Witness ==
    /\ Populating("done") /\ file.state = "json"
    /\ stats.users_failed >= 2 /\ stats.users_created >= 1
    /\ created_users[Len(created_users)].idx = TOTAL_USERS - 1

RanToEnd == pc = "done" /\ ~(answer # NotAsked /\ Declined(answer))
FailedUserDeletes == {n \in Deletes("users") : ~del_log[n].ok}

(* C6: on the manifest path the manifest file is removed at the end iff    *)
(* the run is not a dry run and no user deletion failed; failed booking,   *)
(* rental or package deletions do not matter, and a file that stays keeps  *)
(* its content.                                                            *)
C6_ManifestRemoval ==
    (ManifestPath /\ RanToEnd) =>
        /\ (file.state = "missing") <=> (~dry_run /\ FailedUserDeletes = {})
        /\ (file.state # "missing") => file = JsonFile(manifest)
C6_Witness ==
    /\ ManifestPath /\ RanToEnd /\ file.state = "missing"
    /\ \E n \in DOMAIN del_log : ~del_log[n].ok
    /\ Deletes("users") # {}

InDeletionPhase == pc \in {"bookings", "rentals", "packages", "users", "finish"}

(* C7: in a live rollback on the manifest path a backup copy of the        *)
(* manifest exists before the first DELETE is issued and still exists      *)
(* after the manifest file has been removed.                               *)
C7_BackupFirst ==
    (ManifestPath /\ ~dry_run
       /\ (InDeletionPhase \/ del_log # <<>> \/ file.state = "missing"))
        => JsonFile(manifest) \in backups
C7_Witness ==
    /\ ManifestPath /\ ~dry_run /\ pc = "done"
    /\ file.state = "missing" /\ del_log # <<>>
    /\ JsonFile(manifest) \in backups

(* C8: at either confirmation gate rollback goes on to delete iff force is *)
(* set, or dry-run is active, or the operator answered y; the operator is  *)
(* not asked when force or dry-run is set; a declined prompt ends the run  *)
(* as a failure with no DELETE, no backup and the manifest untouched.      *)
C8_GateStep ==
    (workflow = "rollback" /\ pc \in {"confirm", "fb_confirm"}) =>
        /\ (pc' \in {"backup", "fb_fetch"})
              <=> (force \/ dry_run \/ Lower(answer') = "y")
        /\ (force \/ dry_run) => answer' = NotAsked
        /\ (pc' = "done") =>
              /\ result' = "failure"
              /\ del_log' = <<>> /\ backups' = {} /\ file' = file
              /\ sent' \subseteq {AuthMe}
(* C8, as a property of every step taken at a confirmation gate *)
C8_Gate == [][C8_GateStep]_vars

(* C9: a dry-run population run goes through the steps of a live run in    *)
(* which every call succeeds: every requested user is created and followed *)
(* up, the manifest is saved and the run ends with a success result.       *)
C9_DryRunCompletes ==
    (Populating("done") /\ dry_run) =>
        /\ result = "success"
        /\ stats.users_created = TOTAL_USERS
        /\ file.state = "json"

(* C10: with dry-run active neither workflow puts a request on the         *)
(* network, and rollback creates no backup and leaves the manifest file    *)
(* as it is.                                                               *)
C10_DryRunState == dry_run => (sent = {} /\ backups = {})
C10_DryRunStep == (dry_run /\ workflow = "rollback") => file' = file
(* C10, as one property: nothing is ever sent or backed up in a dry run,  *)
(* and no step of a dry-run rollback changes the manifest file.           *)
C10_DryRunInert == [](C10_DryRunState) /\ [][C10_DryRunStep]_vars
C10_Witness ==
    /\ ManifestPath /\ dry_run /\ pc = "done" /\ result = "success"
    /\ \A c \in Categories : Deletes(c) # {}

DeleteEndpoints == {DelBookings, DelRentals, DelPackages, DelUsers}

(* C11: a second rollback against the same manifest path, after a run     *)
(* that removed the manifest and without the pattern-fallback flag,       *)
(* issues no DELETE, creates no backup, changes no file and ends with a   *)
(* failure result right after the manifest is found missing.              *)
C11_SecondRunNoOp ==
    (workflow = "rollback" /\ run_no = 2 /\ ~pattern_fallback) =>
        /\ del_log = <<>>
        /\ sent \cap DeleteEndpoints = {}
        /\ file = NoFile
        /\ Cardinality(backups) = 1
        /\ NoFile \notin backups
        /\ pc \in {"start", "load", "done"}
        /\ (pc = "done" => result = "failure")
C11_Witness ==
    /\ workflow = "rollback" /\ run_no = 2 /\ ~pattern_fallback
    /\ pc = "done" /\ ~dry_run /\ sent = {AuthMe} /\ result = "failure"

(* C12: a finished rollback run reports success only when no user         *)
(* deletion failed and reports failure when one did, on the manifest path *)
(* and on the pattern-fallback path alike.                                *)
C12_ExitCode ==
    RollingBack("done") =>
        /\ result \in {"success", "failure"}
        /\ (result = "success" => FailedUserDeletes = {})
        /\ (FailedUserDeletes # {} => result = "failure")

C13_FailedCheckState ==
    connected = "no" =>
        /\ pc = "done" /\ result = "failure"
        /\ sent = {AuthMe}
        /\ backups = {} /\ del_log = <<>> /\ todo = <<>>
        /\ manifest = NoContent /\ answer = NotAsked
        /\ config = EmptyConfig
        /\ created_users = <<>> /\ created_bookings = <<>>
        /\ created_rentals = <<>> /\ created_packages = <<>>
        /\ (workflow = "populate" => file = NoFile /\ stats = ZeroPopStats)
        /\ (workflow = "rollback" => stats = ZeroRbStats)
C13_FailedCheckStep ==
    /\ connected' = "no" => file' = file /\ backups' = backups
    /\ connected = "no" => UNCHANGED vars
(* C13: when GET /auth/me fails the run ends with a failure result and    *)
(* sends nothing else: the populator fetches and creates nothing and      *)
(* writes no manifest, rollback reads no manifest, makes no backup and    *)
(* deletes nothing, and no file changes.                                  *)
C13_FailedCheck == [](C13_FailedCheckState) /\ [][C13_FailedCheckStep]_vars
C13_Witness == connected = "no" /\ workflow = "populate" /\ pc = "done"
C13_WitnessRollback ==
    connected = "no" /\ workflow = "rollback" /\ file.state = "json" /\ pc = "done"

Attempts(cat) == SelectSeq(del_log, LAMBDA e : e.cat = cat)
AttemptIds(cat) == [n \in DOMAIN Attempts(cat) |-> Attempts(cat)[n].id]
HasId(u) == u.id # 0
ManifestIds(cat) ==
    IF cat = "users"
    THEN [n \in DOMAIN SelectSeq(manifest.users, HasId) |->
             SelectSeq(manifest.users, HasId)[n].id]
    ELSE ListOf(manifest, cat)
Succeeded(cat) == Cardinality({n \in Deletes(cat) : del_log[n].ok})
DeletedCounter(cat) ==
    IF cat = "bookings" THEN stats.bookings_deleted
    ELSE IF cat = "rentals" THEN stats.rentals_deleted
    ELSE IF cat = "packages" THEN stats.packages_deleted
    ELSE stats.users_deleted

(* C14: a rollback that went through the deletion phase has made one      *)
(* DELETE attempt for every id of the manifest's bookings, rentals and    *)
(* packages and for every user entry with an id, in list order and        *)
(* whatever earlier deletes returned; each deleted counter is the number  *)
(* of that category's successful deletes.                                 *)
C14_EveryIdAttempted ==
    (ManifestPath /\ RanToEnd) =>
        \A cat \in Categories :
            /\ AttemptIds(cat) = ManifestIds(cat)
            /\ DeletedCounter(cat) = Succeeded(cat)
C14_Witness ==
    /\ ManifestPath /\ RanToEnd /\ ~dry_run
    /\ Len(manifest.bookings) >= 2 /\ Len(del_log) >= 2 /\ ~del_log[1].ok /\ del_log[2].ok
    /\ \E n \in Deletes("users") : del_log[n].ok
    /\ \E n \in DOMAIN manifest.users : manifest.users[n].id = 0
    /\ stats.bookings_deleted = 1

FallbackPath == workflow = "rollback" /\ pattern_fallback /\ Falsy(manifest)
FallbackDone ==
    /\ FallbackPath
    /\ \/ pc = "fb_finish"
       \/ pc = "done" /\ connected = "yes" /\ ~(answer # NotAsked /\ Declined(answer))
HasTestPrefix(u) == \E n \in DOMAIN u.email : u.email[n] = "stress_test_"
TestUserIds ==
    [n \in DOMAIN SelectSeq(fetched, HasTestPrefix) |->
        SelectSeq(fetched, HasTestPrefix)[n].id]

(* C15: on the confirmed pattern-fallback path (no manifest could be      *)
(* loaded) the DELETEs are those of exactly the fetched users whose email *)
(* contains 'stress_test_'; no booking, rental or package DELETE is made  *)
(* and their deleted counters stay zero.                                  *)
C15_FallbackDeletes ==
    /\ FallbackPath =>
          /\ \A c \in Categories \ {"users"} : Deletes(c) = {}
          /\ stats.bookings_deleted = 0 /\ stats.rentals_deleted = 0
          /\ stats.packages_deleted = 0
          /\ Len(del_log) <= Len(TestUserIds)
          /\ AttemptIds("users") = SubSeq(TestUserIds, 1, Len(del_log))
    /\ FallbackDone => AttemptIds("users") = TestUserIds
C15_Witness ==
    /\ FallbackDone /\ pc = "done" /\ ~dry_run
    /\ file = InvalidFile
    /\ Len(fetched) = 2 /\ fetched[2].email = InnerEmail
    /\ del_log # <<>> /\ del_log[1].id = 2

UserCreated == stats'.users_created = stats.users_created + 1
UserFailed == stats'.users_failed = stats.users_failed + 1
NextUserOrEnd == pc' \in {"user", "batch_end"} /\ k' = k + 1
C16_RequestOrderStep ==
    workflow = "populate" =>
        /\ pc = "user" =>
             /\ last_calls' \in {<<PostRegister>>, <<PostRegister, PostUsers>>}
             /\ UserCreated \/ UserFailed
             /\ UserCreated => pc' = "topup" /\ k' = k
             /\ UserFailed => NextUserOrEnd
        /\ pc = "topup" =>
             last_calls' = <<PostDeposit>> /\ pc' = "package" /\ k' = k
        /\ pc = "package" =>
             /\ last_calls' =
                  IF use_package' /\ config.packages # <<>> THEN <<PostPurchase>> ELSE <<>>
             /\ pc' = "booking" /\ k' = k
        /\ pc = "booking" =>
             /\ last_calls' =
                  IF config.instructors # <<>> /\ config.services # <<>>
                  THEN <<PostBookings>> ELSE <<>>
             /\ pc' \in {"booking", "rental"} /\ k' = k
        /\ pc = "rental" =>
             /\ last_calls' \in {<<>>, <<PostRentals>>}
             /\ NextUserOrEnd
        /\ pc \notin {"user", "topup", "package", "booking", "rental"} =>
             last_calls' = <<>> /\ pc' \notin {"topup", "package", "booking", "rental"}
(* C16: the requests of one user come in the order creation, top-up,      *)
(* package purchase (if any), bookings, rental (if any), all of them      *)
(* before the next user's creation; a user whose creation failed gets     *)
(* none of the later requests, and a failed top-up, purchase or booking   *)
(* does not keep the later steps of that user from being made.            *)
C16_RequestOrder == [][C16_RequestOrderStep]_vars
C16_Witness ==
    /\ workflow = "populate" /\ last_calls = <<PostRentals>>
    /\ stats.users_created = 1 /\ stats.users_failed = 1
    /\ stats.topups_created = 0
    /\ stats.packages_purchased = 0 /\ PostPurchase \in sent
    /\ stats.bookings_created = 0 /\ PostBookings \in sent
    /\ created_rentals # <<>>

PathSucceeded == \E n \in DOMAIN create_ok' : create_ok'[n]
C17_CreatePathsStep ==
    (workflow = "populate" /\ pc = "user") =>
        /\ last_calls'[1] = PostRegister
        /\ (Len(last_calls') = 2) <=> ~create_ok'[1]
        /\ Len(last_calls') = 2 => last_calls'[2] = PostUsers
        /\ UserCreated <=> PathSucceeded
        /\ ~PathSucceeded => UserFailed /\ stats'.users_created = stats.users_created
        /\ PathSucceeded =>
             /\ stats'.users_failed = stats.users_failed
             /\ user_id' # 0
             /\ Len(created_users') = Len(created_users) + 1
             /\ created_users'[Len(created_users')].id = user_id'
(* C17: for each user POST /users is called exactly when POST             *)
(* /auth/register did not succeed; the user is counted created iff one of *)
(* the two calls succeeded and failed exactly once otherwise; a call that *)
(* succeeds yields a user id, and that id is recorded.                    *)
C17_CreatePaths == [][C17_CreatePathsStep]_vars

RoundTripDone ==
    /\ workflow = "rollback" /\ api.tracked /\ ~dry_run
    /\ ManifestPath /\ RanToEnd
    /\ \A n \in DOMAIN del_log : del_log[n].ok
(* C18: after a population run that finished and a live rollback of the   *)
(* manifest it wrote in which every DELETE succeeded, no user, package,   *)
(* booking or rental that the population run created is left at the API,  *)
(* and the manifest file is gone.                                         *)
C18_RoundTrip ==
    RoundTripDone =>
        /\ api.live = {}
        /\ ~api.hidden
        /\ file.state = "missing"

====
